---- MODULE Spec2Model ----
(***************************************************************************)
(* AppHider/convert_icon.py: convert_to_ico(source, target).                *)
(*                                                                         *)
(* One run of the script is a sequence of steps: Image.open(source)        *)
(* (line 6), img.save(target, format='ICO', sizes=[(256, 256)]) (line 9),  *)
(* the success print (line 10), and on any Exception the handler (lines    *)
(* 11-13): the error print and exit(1).  img.save is split in the three    *)
(* things Pillow does in it, in Pillow's order: load the pixel data of the *)
(* lazily opened source, open the target "w+b" (create or truncate), and   *)
(* let the ICO plugin encode and write.                                    *)
(*                                                                         *)
(* A file is a sequence of chunks, so that truncation, partial writes and  *)
(* the ICO directory (one byte per dimension, 0 standing for 256) are      *)
(* things the model computes.                                              *)
(*                                                                         *)
(* Environment: the source file and the writability of the target are      *)
(* fixed for a behaviour; an I/O or encoder failure may strike the write,  *)
(* and a console failure may strike the success print (line 10, inside the *)
(* try).  The handler's own print (line 12) is taken to complete.          *)
(***************************************************************************)
EXTENDS Integers, Sequences, FiniteSets, TLC

VARIABLES
    fs,         \* the filesystem: path -> file
    pre,        \* fs as it was when the current run started
    writable,   \* whether the process may create/overwrite the target path
    pc,         \* the statement the current run is at
    img,        \* the Image object bound at line 6
    created,    \* Pillow's `created`: save() made the target file itself
    out,        \* the lines the current run printed on stdout
    exitCode,   \* <<>> while running, <<code>> once the process has exited
    err,        \* the description of the raised exception, "none" if none
    uncaught,   \* an exception left convert_to_ico (traceback)
    trace,      \* the steps the current run has executed, with their outcome
    run,        \* number of the current run of the script
    results     \* one record per finished run

vars == <<fs, pre, writable, pc, img, created, out, exitCode, err, uncaught,
          trace, run, results>>

----------------------------------------------------------------------------
\* Bounds and constants

\* sizes=[(256, 256)]
IconSize == 256

\* the script is run at most this many times in succession
MaxRuns == 2

\* source images are (IconSize/2) * 2^k pixels wide and high, k in 0..MaxDimExp
MaxDimExp == 2

RECURSIVE Pow2(_)
Pow2(k) == IF k = 0 THEN 1 ELSE 2 * Pow2(k - 1)

Dims == {(IconSize \div 2) * Pow2(k) : k \in 0..MaxDimExp}

----------------------------------------------------------------------------
\* Paths and files

Source == "icon.png"
Target == "app.ico"
Other == "other.dat"

Paths == {Source, Target, Other}

Chunk(t, a, b) == [t |-> t, a |-> a, b |-> b]

Absent == [exists |-> FALSE, data |-> <<>>]

File(d) == [exists |-> TRUE, data |-> d]

\* a raster file: a header chunk carrying the dimensions, then the pixel data
RasterFile(w, h) == File(<<Chunk("IHDR", w, h), Chunk("IDAT", w, h)>>)

\* a raster file cut off after its header
TruncatedRaster(w, h) == File(<<Chunk("IHDR", w, h)>>)

TextFile == File(<<Chunk("TEXT", 0, 0)>>)

OldFile == File(<<Chunk("OLD", 0, 0)>>)

SourceFiles ==
    {Absent, TextFile}
        \cup {RasterFile(w, h) : w \in Dims, h \in Dims}
        \cup {TruncatedRaster(w, h) : w \in Dims, h \in Dims}

TargetFiles == {Absent, OldFile}

----------------------------------------------------------------------------
\* The image library, as convert_to_ico uses it

NoImage == [open |-> FALSE, size |-> <<0, 0>>, loaded |-> FALSE]

\* Image.open(source): opens the file and identifies it from its header; the
\* pixel data is not read yet.
ImageOpen(f) ==
    IF ~f.exists
    THEN [ok |-> FALSE, err |-> "FileNotFoundError", size |-> <<0, 0>>]
    ELSE IF Len(f.data) = 0 \/ f.data[1].t # "IHDR"
    THEN [ok |-> FALSE, err |-> "UnidentifiedImageError", size |-> <<0, 0>>]
    ELSE [ok |-> TRUE, err |-> "none", size |-> <<f.data[1].a, f.data[1].b>>]

\* Image.load(), called by save(): the pixel data must be there
ImageLoad(f) ==
    IF f.exists /\ Len(f.data) >= 2 /\ f.data[2].t = "IDAT"
    THEN [ok |-> TRUE, err |-> "none"]
    ELSE [ok |-> FALSE, err |-> "OSError: image file is truncated"]

Abs(n) == IF n < 0 THEN 0 - n ELSE n

Max(a, b) == IF a >= b THEN a ELSE b

\* Image.thumbnail(box): scale down to fit the box, keeping the aspect ratio;
\* of floor and ceiling the one closest to the aspect ratio, at least 1.
Thumbnail(size, box) ==
    LET w == size[1]
        h == size[2]
        x == box[1]
        y == box[2]
    IN  IF x >= w /\ y >= h
        THEN size
        ELSE IF x * h >= y * w
        THEN LET fl == (y * w) \div h
                 ce == IF (y * w) % h = 0 THEN fl ELSE fl + 1
                 n  == IF Abs(w * y - fl * h) <= Abs(w * y - ce * h)
                       THEN fl ELSE ce
             IN  <<Max(n, 1), y>>
        ELSE LET fl == (x * h) \div w
                 ce == IF (x * h) % w = 0 THEN fl ELSE fl + 1
                 n  == IF fl = 0 \/ Abs(w * fl - x * h) * ce <= Abs(w * ce - x * h) * fl
                       THEN fl ELSE ce
             IN  <<x, Max(n, 1)>>

\* The ICO writer's frames for sizes=[(256, 256)]: a requested size wider or
\* higher than the image, or above 256, is skipped; otherwise the frame is the
\* image itself when it has that size, else a thumbnail of it.
IcoFrames(size) ==
    IF IconSize > size[1] \/ IconSize > size[2] \/ IconSize > 256
    THEN <<>>
    ELSE IF size = <<IconSize, IconSize>>
    THEN <<size>>
    ELSE <<Thumbnail(size, <<IconSize, IconSize>>)>>

\* a directory byte: 256 is written as 0
DirByte(n) == IF n < 256 THEN n ELSE 0

RECURSIVE IcoBody(_)
IcoBody(frames) ==
    IF frames = <<>>
    THEN <<>>
    ELSE <<Chunk("ICONDIRENTRY", DirByte(frames[1][1]), DirByte(frames[1][2])),
           Chunk("PNG", frames[1][1], frames[1][2])>>
         \o IcoBody(Tail(frames))

\* the bytes save(format='ICO') writes: magic and frame count, then per frame
\* its directory entry and its PNG
IcoEncode(size) ==
    LET frames == IcoFrames(size)
    IN  <<Chunk("ICONDIR", Len(frames), 0)>> \o IcoBody(frames)

\* builtins.open(filename, "w+b"): the file is created or truncated
OpenForWriteAppend(data) == data

OpenForWrite(data) == <<>>

\* the path img.save is given
SavePathSource == Source

SavePath == Target

----------------------------------------------------------------------------
\* Console lines

SuccessLine(s, t) == [kind |-> "Successfully converted", a |-> s, b |-> t]

ErrorLine(e) == [kind |-> "Error converting icon", a |-> e, b |-> ""]

----------------------------------------------------------------------------
\* Exceptions

OSErrors ==
    {"FileNotFoundError", "UnidentifiedImageError", "PermissionError",
     "OSError: image file is truncated", "OSError: write failed"}

OtherErrors == {"encoder error", "print failed"}

\* failures the environment injects into a run whose inputs are fine
EnvFaults == {"OSError: write failed", "encoder error", "print failed"}

\* `except Exception`: every one of them is caught
CaughtOSError(e) == e \in OSErrors

Caught(e) == e \in OSErrors \cup OtherErrors

\* the process ends: its exit code is set and the run is recorded
Finish(code, o, f, e) ==
    /\ pc' = "done"
    /\ exitCode' = <<code>>
    /\ results' = Append(results,
                         [exit |-> code, out |-> o, target |-> f[Target],
                          err |-> e])

\* an exception e is raised inside the try block
Raise(e, f) ==
    /\ err' = e
    /\ IF Caught(e)
       THEN /\ pc' = "except"
            /\ UNCHANGED <<exitCode, uncaught, results>>
       ELSE /\ uncaught' = TRUE
            /\ Finish(1, out, f, e)

Log(op, ok) == trace' = Append(trace, [op |-> op, ok |-> ok])

----------------------------------------------------------------------------
\* Initial state: the script is about to be run for the first time

Init ==
    /\ \E s \in SourceFiles, t \in TargetFiles :
          fs = [p \in Paths |->
                  IF p = Source THEN s ELSE IF p = Target THEN t ELSE OldFile]
    /\ pre = fs
    /\ writable \in BOOLEAN
    /\ pc = "open"
    /\ img = NoImage
    /\ created = FALSE
    /\ out = <<>>
    /\ exitCode = <<>>
    /\ err = "none"
    /\ uncaught = FALSE
    /\ trace = <<>>
    /\ run = 1
    /\ results = <<>>

----------------------------------------------------------------------------
\* The steps of a run

\* line 6: img = Image.open(source)
OpenStepTargetFirst ==
    /\ pc = "open"
    /\ LET r == ImageOpen(fs[Source])
       IN  /\ Log("open", r.ok)
           /\ fs' = [fs EXCEPT ![Target] = File(<<>>)]
           /\ IF r.ok
              THEN /\ img' = [open |-> TRUE, size |-> r.size, loaded |-> FALSE]
                   /\ pc' = "save"
                   /\ UNCHANGED <<err, exitCode, uncaught, results>>
              ELSE /\ Raise(r.err, fs')
                   /\ UNCHANGED img
    /\ UNCHANGED <<pre, writable, created, out, run>>

OpenStep ==
    /\ pc = "open"
    /\ LET r == ImageOpen(fs[Source])
       IN  /\ Log("open", r.ok)
           /\ IF r.ok
              THEN /\ img' = [open |-> TRUE, size |-> r.size, loaded |-> FALSE]
                   /\ pc' = "save"
                   /\ UNCHANGED <<err, exitCode, uncaught, results>>
              ELSE /\ Raise(r.err, fs)
                   /\ UNCHANGED img
    /\ UNCHANGED <<fs, pre, writable, created, out, run>>

\* line 9, img.save: the pixel data of the source is loaded first
SaveLoad ==
    /\ pc = "save"
    /\ LET r == ImageLoad(fs[Source])
       IN  /\ Log("load", r.ok)
           /\ IF r.ok
              THEN /\ img' = [img EXCEPT !.loaded = TRUE]
                   /\ pc' = "save_open"
                   /\ UNCHANGED <<err, exitCode, uncaught, results>>
              ELSE /\ Raise(r.err, fs)
                   /\ UNCHANGED img
    /\ UNCHANGED <<fs, pre, writable, created, out, run>>

\* line 9, img.save: the target is opened "w+b"
SaveOpen ==
    /\ pc = "save_open"
    /\ Log("create", writable)
    /\ IF writable
       THEN /\ created' = ~fs[SavePath].exists
            /\ fs' = [fs EXCEPT ![SavePath] = File(OpenForWrite(@.data))]
            /\ pc' = "save_write"
            /\ UNCHANGED <<err, exitCode, uncaught, results>>
       ELSE /\ Raise("PermissionError", fs)
            /\ UNCHANGED <<fs, created>>
    /\ UNCHANGED <<pre, writable, img, out, run>>

\* line 9, img.save: the ICO plugin encodes and writes, and the file is closed
SaveWrite ==
    /\ pc = "save_write"
    /\ Log("write", TRUE)
    /\ fs' = [fs EXCEPT ![SavePath] = File(@.data \o IcoEncode(img.size))]
    /\ pc' = "print"
    /\ UNCHANGED <<pre, writable, img, created, out, exitCode, err, uncaught,
                   run, results>>

\* line 9, img.save: the encoder or a write fails part-way.  What was written
\* so far stays in the file; a Pillow that tracks `created` removes a file it
\* had created itself.  Then the exception goes on to the caller.
SaveWriteFailSwallowed ==
    /\ pc = "save_write"
    /\ \E k \in 0..(Len(IcoEncode(img.size)) - 1) :
          fs' = [fs EXCEPT ![SavePath] =
                    File(@.data \o SubSeq(IcoEncode(img.size), 1, k))]
    /\ Log("write", FALSE)
    /\ pc' = "print"
    /\ UNCHANGED <<pre, writable, img, created, out, exitCode, err, uncaught,
                   run, results>>

SaveWriteFail ==
    /\ pc = "save_write"
    /\ \E k \in 0..(Len(IcoEncode(img.size)) - 1), remove \in BOOLEAN :
          /\ remove => created
          /\ fs' = [fs EXCEPT ![SavePath] =
                      IF remove
                      THEN Absent
                      ELSE File(@.data \o SubSeq(IcoEncode(img.size), 1, k))]
    /\ Log("write", FALSE)
    /\ \E e \in {"OSError: write failed", "encoder error"} : Raise(e, fs')
    /\ UNCHANGED <<pre, writable, img, created, out, run>>

\* line 10: print(f"Successfully converted {source} to {target}")
PrintSuccess ==
    /\ pc = "print"
    /\ Log("print", TRUE)
    /\ out' = Append(out, SuccessLine(Source, Target))
    /\ pc' = "return"
    /\ UNCHANGED <<fs, pre, writable, img, created, exitCode, err, uncaught,
                   run, results>>

\* line 10 raises: nothing reaches the console
PrintSuccessFailUncaught ==
    /\ pc = "print"
    /\ Log("print", FALSE)
    /\ err' = "print failed"
    /\ uncaught' = TRUE
    /\ Finish(1, out, fs, "print failed")
    /\ UNCHANGED <<fs, pre, writable, img, created, out, run>>

PrintSuccessFail ==
    /\ pc = "print"
    /\ Log("print", FALSE)
    /\ Raise("print failed", fs)
    /\ UNCHANGED <<fs, pre, writable, img, created, out, run>>

\* convert_to_ico returns and the script ends (line 15): exit code 0
Return ==
    /\ pc = "return"
    /\ Finish(0, out, fs, err)
    /\ UNCHANGED <<fs, pre, writable, img, created, out, err, uncaught, trace,
                   run>>

\* line 12: print(f"Error converting icon: {e}")
ExceptStepTwoLines ==
    /\ pc = "except"
    /\ Log("except", TRUE)
    /\ out' = out \o <<ErrorLine(err), ErrorLine("traceback")>>
    /\ pc' = "exit"
    /\ UNCHANGED <<fs, pre, writable, img, created, exitCode, err, uncaught,
                   run, results>>

ExceptStepCleanup ==
    /\ pc = "except"
    /\ Log("except", TRUE)
    /\ out' = Append(out, ErrorLine(err))
    /\ fs' = [fs EXCEPT ![Target] = Absent]
    /\ pc' = "exit"
    /\ UNCHANGED <<pre, writable, img, created, exitCode, err, uncaught,
                   run, results>>

ExceptStep ==
    /\ pc = "except"
    /\ Log("except", TRUE)
    /\ out' = Append(out, ErrorLine(err))
    /\ pc' = "exit"
    /\ UNCHANGED <<fs, pre, writable, img, created, exitCode, err, uncaught,
                   run, results>>

\* line 13: exit(1)
ExitStepZero ==
    /\ pc = "exit"
    /\ Log("exit", TRUE)
    /\ Finish(0, out, fs, err)
    /\ UNCHANGED <<fs, pre, writable, img, created, out, err, uncaught, run>>

ExitStep ==
    /\ pc = "exit"
    /\ Log("exit", TRUE)
    /\ Finish(1, out, fs, err)
    /\ UNCHANGED <<fs, pre, writable, img, created, out, err, uncaught, run>>

\* line 15: the script is run again
Run ==
    /\ pc = "done"
    /\ run < MaxRuns
    /\ run' = run + 1
    /\ pre' = fs
    /\ pc' = "open"
    /\ img' = NoImage
    /\ created' = FALSE
    /\ out' = <<>>
    /\ exitCode' = <<>>
    /\ err' = "none"
    /\ uncaught' = FALSE
    /\ trace' = <<>>
    /\ UNCHANGED <<fs, writable, results>>

Next ==
    \/ OpenStep
    \/ SaveLoad
    \/ SaveOpen
    \/ SaveWrite
    \/ SaveWriteFail
    \/ PrintSuccess
    \/ PrintSuccessFail
    \/ Return
    \/ ExceptStep
    \/ ExitStep
    \/ Run

Spec == Init /\ [][Next]_vars

----------------------------------------------------------------------------
\* Vocabulary of the properties

Terminal == pc = "done"

SuccessPrinted == \E i \in 1..Len(out) : out[i].kind = "Successfully converted"

ErrorPrinted == \E i \in 1..Len(out) : out[i].kind = "Error converting icon"

\* the file can be opened and its pixel data loaded
Decodable(f) == ImageOpen(f).ok /\ ImageLoad(f).ok

\* Reading an ICO file back: the sizes of the frames it holds, <<>> when the
\* data is no complete ICO container.
IcoDecode(f) ==
    IF ~f.exists \/ Len(f.data) = 0 \/ f.data[1].t # "ICONDIR"
       \/ Len(f.data) # 1 + 2 * f.data[1].a
    THEN <<>>
    ELSE [i \in 1..f.data[1].a |-> <<f.data[2 * i + 1].a, f.data[2 * i + 1].b>>]

\* the target holds exactly what the ICO writer emits for the source image
CompleteIco == fs[Target] = File(IcoEncode(ImageOpen(fs[Source]).size))

StepFailed == \E i \in 1..Len(trace) : ~trace[i].ok

StepOrder == <<"open", "load", "create", "write", "print", "except", "exit">>

Rank(op) == CHOOSE k \in 1..Len(StepOrder) : StepOrder[k] = op

Count(op) == Cardinality({i \in 1..Len(trace) : trace[i].op = op})

OutcomeSuccess == SuccessPrinted /\ exitCode = <<0>> /\ CompleteIco

OutcomeFailure == ErrorPrinted /\ exitCode = <<1>>

----------------------------------------------------------------------------
\* C1: every finished run is in exactly one of two outcomes: success line
\* printed, exit code 0 and the target holding the complete ICO encoding of
\* the source; or error line printed and exit code 1.  The success line never
\* goes with exit code 1, and exit code 0 never goes with an incomplete target.
C1_TwoOutcomes ==
    Terminal =>
        /\ OutcomeSuccess \/ OutcomeFailure
        /\ ~(OutcomeSuccess /\ OutcomeFailure)
        /\ SuccessPrinted => exitCode = <<0>>
        /\ exitCode = <<0>> => CompleteIco /\ ~ErrorPrinted

\* a second run that succeeds after a first run that failed
C1_Witness ==
    /\ Terminal
    /\ Len(results) = 2
    /\ results[1].exit = 1
    /\ OutcomeSuccess

\* C2: for a decodable source of any dimensions and a writable target, with no
\* failure injected by the environment, the finished run left an ICO file with
\* exactly one frame of IconSize x IconSize at the target and exited with 0.
C2_OneFrame256 ==
    (Terminal /\ Decodable(pre[Source]) /\ writable /\ err \notin EnvFaults) =>
        /\ exitCode = <<0>>
        /\ IcoDecode(fs[Target]) = <<(<<IconSize, IconSize>>)>>

\* C3: whichever step failed and whatever the cause, the finished run caught
\* the failure, went through the handler, printed exactly the error line with
\* the failure's description and exited with code 1.
C3_UniformFailure ==
    (Terminal /\ (StepFailed \/ err # "none")) =>
        /\ ~uncaught
        /\ err # "none"
        /\ out = <<ErrorLine(err)>>
        /\ exitCode = <<1>>
        /\ Len(trace) >= 3
        /\ trace[Len(trace) - 1] = [op |-> "except", ok |-> TRUE]
        /\ trace[Len(trace)] = [op |-> "exit", ok |-> TRUE]

\* the encoder failed after the target had been opened
C3_Witness ==
    /\ Terminal
    /\ err = "encoder error"
    /\ exitCode = <<1>>
    /\ [op |-> "write", ok |-> FALSE] \in {trace[i] : i \in 1..Len(trace)}

\* C4: when the source path does not exist, the run prints the error line,
\* exits with code 1 and leaves the target path as it was before the run.
C4_MissingSource ==
    (Terminal /\ ~pre[Source].exists) =>
        /\ out = <<ErrorLine("FileNotFoundError")>>
        /\ exitCode = <<1>>
        /\ fs[Target] = pre[Target]

\* source missing, with a target file that already existed
C4_Witness ==
    /\ Terminal
    /\ ~pre[Source].exists
    /\ pre[Target] = OldFile
    /\ exitCode = <<1>>

\* C5: a run never has more than one line on the console, and a finished run
\* has exactly one: the success line naming both paths when it exits with 0,
\* the error line with the failure's description when it exits with 1.
C5_OneLine ==
    /\ Len(out) <= 1
    /\ Terminal =>
          /\ Len(out) = 1
          /\ exitCode = <<0>> => out = <<SuccessLine(Source, Target)>>
          /\ exitCode = <<1>> => err # "none" /\ out = <<ErrorLine(err)>>

\* the success print was attempted and failed, then the handler printed
C5_Witness ==
    /\ Terminal
    /\ [op |-> "print", ok |-> FALSE] \in {trace[i] : i \in 1..Len(trace)}
    /\ Len(out) = 1

\* C6: two runs in succession on the same decodable source and writable
\* target, neither hit by an environment failure, both exit with 0 and leave
\* the same contents at the target.
C6_Idempotent ==
    \A i \in 1..(Len(results) - 1) :
        (/\ Decodable(fs[Source])
         /\ writable
         /\ results[i].err \notin EnvFaults
         /\ results[i + 1].err \notin EnvFaults)
        => /\ results[i].exit = 0
           /\ results[i + 1].exit = 0
           /\ results[i].target = results[i + 1].target

\* two successful runs, the second overwriting the first one's output
C6_Witness ==
    /\ Len(results) >= 2
    /\ results[1].exit = 0
    /\ results[2].exit = 0
    /\ results[2].target.exists
    /\ IcoDecode(results[2].target) # <<>>

\* C7: the target path is the only file a run changes: the source and every
\* other file are as they were when the run started.
C7_OnlyTargetWritten ==
    \A p \in Paths \ {Target} : fs[p] = pre[p]

\* a run that did change the target
C7_Witness ==
    /\ Terminal
    /\ fs[Target] # pre[Target]
    /\ fs[Source] = pre[Source]

\* C8: the steps run in the order open, load, create, write, print; the target
\* is opened or written only after the source was opened successfully, and the
\* success line is printed only after the write completed without error.
C8_StepOrder ==
    /\ \A i, j \in 1..Len(trace) :
          i < j => Rank(trace[i].op) < Rank(trace[j].op)
    /\ \A i \in 1..Len(trace) :
          trace[i].op \in {"create", "write"} =>
              \E j \in 1..(i - 1) : trace[j] = [op |-> "open", ok |-> TRUE]
    /\ fs[Target] # pre[Target] => img.open
    /\ \A i \in 1..Len(trace) :
          trace[i].op = "print" =>
              /\ \E j \in 1..(i - 1) : trace[j] = [op |-> "write", ok |-> TRUE]
              /\ \A j \in 1..Len(trace) : trace[j].op = "write" => trace[j].ok
    /\ SuccessPrinted => CompleteIco

\* the success line is out and an old target file was overwritten
C8_Witness ==
    /\ SuccessPrinted
    /\ pre[Target] = OldFile
    /\ fs[Target] # pre[Target]

\* each conversion step is executed at most once in a run
OnceEach ==
    /\ Count("open") <= 1
    /\ Count("load") <= 1
    /\ Count("create") <= 1
    /\ Count("write") <= 1

\* after a failed step only the handler's two steps are executed
OnlyHandlerAfterFailure ==
    \A i, j \in 1..Len(trace) :
        (i < j /\ ~trace[i].ok) => trace[j].op \in {"except", "exit"}

\* a step taken inside the handler leaves the filesystem alone and leads to
\* the exit of the same run
HandlerTouchesNothing ==
    pc \in {"except", "exit"} =>
        /\ fs' = fs
        /\ pc' \in {"exit", "done"}
        /\ run' = run

\* C9: within a run the source is opened at most once and the save attempted
\* at most once; after the first failed step only the error print and the exit
\* follow, and from the failure on the filesystem is not touched again.
C9_NoRetry ==
    [](OnceEach /\ OnlyHandlerAfterFailure) /\ [][HandlerTouchesNothing]_vars

\* a failed write left a partial target, and the run ended without touching it
C9_Witness ==
    /\ Terminal
    /\ err = "OSError: write failed"
    /\ fs[Target].exists
    /\ fs[Target] # pre[Target]
    /\ ~CompleteIco

\* C10: a failure of the success print is handled like any other failure: the
\* error line is printed and the exit code is 1, while the completely written
\* ICO file stays at the target path.
C10_PrintFailure ==
    (Terminal /\ [op |-> "print", ok |-> FALSE] \in {trace[i] : i \in 1..Len(trace)}) =>
        /\ ~uncaught
        /\ out = <<ErrorLine("print failed")>>
        /\ exitCode = <<1>>
        /\ CompleteIco

\* exit code 1 with the target completely written
C10_Witness ==
    /\ Terminal
    /\ exitCode = <<1>>
    /\ err = "print failed"
    /\ CompleteIco
    /\ fs[Target] # pre[Target]

====
